---- MODULE Spec2Model ----
(***************************************************************************)
(* Vessel reconstruction analysis: a model of                              *)
(*   src/analysis_pipeline.py   enhanced_vessel_reconstruction_analysis    *)
(*   src/utils/metrics_utils.py compute_centerline_metrics (graph part),   *)
(*                              compute_reconstruction_quality_metrics     *)
(*   src/utils/geometric_utils.py compute_tangent                          *)
(*   src/utils/plot_utils.py    create_flat_disc                           *)
(*                                                                         *)
(* Geometry is kept in exact integer arithmetic.  The segmentation volume  *)
(* is a row of Dim voxels (shape <<Dim, 1, 1>>), the affine is a diagonal  *)
(* scaling plus a translation, and world points have integer coordinates,  *)
(* so a voxel coordinate is the rational (w - t) / s and numpy's rounding  *)
(* (half to even) is computed exactly.                                     *)
(*                                                                         *)
(* The image-processing libraries (marching cubes, skeletonisation, the    *)
(* ray-casting scene) are not computed voxel by voxel: what they return to *)
(* the orchestrator is either derived from the mask by a simple rule or    *)
(* chosen nondeterministically among the outcomes the orchestrator         *)
(* distinguishes, an exception included.                                   *)
(***************************************************************************)
EXTENDS Integers, Sequences, FiniteSets, TLC

\* ------------------------------------------------------------- bounds ----
\* Number of voxels along the x axis of the segmentation volume.
Dim == 2
\* Longest point cloud.
MaxPoints == 1
\* Most exceptions raised by the libraries in one run.
MaxFailures == 1

\* --------------------------------------------------- program constants ----
\* enumerate(zip(colors_rgb, names), start=1): the labels 1..3.
NumLabels == 3
\* pad_amount
PadAmount == 2

names == <<"Aorta", "Left Iliac Artery", "Right Iliac Artery">>
colors_rgb == <<(<<1, 0, 0>>), (<<0, 1, 0>>), (<<0, 0, 1>>)>>
Labels == 1..NumLabels
Names == {names[l] : l \in Labels}

\* ------------------------------------------------------- input domains ----
Shape == <<Dim, 1, 1>>
Voxels == {<<x, y, z>> : x \in 0..(Shape[1] - 1), y \in 0..(Shape[2] - 1), z \in 0..(Shape[3] - 1)}
\* A label volume: 0 is background, 1..3 the vessel classes.
Volumes == [Voxels -> 0..NumLabels]
\* Diagonal affines: per-axis scale s and a translation along x.
Scales == {0, 1, 2}
Shifts == {0, 1}
Affines == {[scale |-> <<s, s, s>>, trans |-> <<t, 0, 0>>] : s \in Scales, t \in Shifts}
\* World points of the clouds given to the pipeline: on the x axis, one step
\* beyond the volume on either side.
CloudPoints == {<<x, 0, 0>> : x \in (-1)..Dim}
Clouds == UNION {[1..n -> CloudPoints] : n \in 0..MaxPoints}

VARIABLES
    pc,              \* position in enhanced_vessel_reconstruction_analysis
    statuses,        \* the messages given to status_callback, in order
    new_seg_scan,    \* the label volume
    points,          \* the point cloud, or None
    affine,          \* scan_data.affine
    point_labels,    \* per-point labels, or None
    label_idx,       \* loop variable
    vessel_results,  \* the record being filled for the current label
    mesh,            \* the o3d mesh of the current label
    results,         \* the AnalysisResult being returned
    failures,        \* exceptions raised so far
    lab_in,          \* VolumeLabeler alone: the volume, affine and point given
    lab_out,         \* VolumeLabeler alone: the labels of successive labelings
    mst,             \* centerline graph: the minimum spanning tree
    sweep,           \* centerline graph: the locals of the double sweep and the walk
    centroids_mm,    \* centerline graph: the centroids of the significant fragments
    graph,           \* centerline graph: the tree over the centroids and its metrics
    skeleton_mm,     \* disc: the skeleton points
    max_diam_idx,    \* disc: index of the widest skeleton point
    tangent,         \* disc: what compute_tangent returned
    disc,            \* disc: the mesh built by create_flat_disc
    score_in,        \* quality scorer alone: the points and the mesh vertices given
    score_out        \* quality scorer alone: the metrics returned

pipelineVars == <<pc, statuses, new_seg_scan, points, affine, point_labels, label_idx,
                  vessel_results, mesh, results, failures>>
labelerVars == <<lab_in, lab_out>>
sweepVars == <<mst, sweep>>
centerlineVars == <<centroids_mm, graph>>
discVars == <<skeleton_mm, max_diam_idx, tangent, disc>>
scorerVars == <<score_in, score_out>>
vars == <<pipelineVars, labelerVars, sweepVars, centerlineVars, discVars, scorerVars>>

\* ------------------------------------------------------------ helpers ----
Abs(x) == IF x < 0 THEN -x ELSE x

\* Optional values: None, or a value.
None == [ok |-> FALSE, val |-> <<>>]
Some(v) == [ok |-> TRUE, val |-> v]

Status(msg, name) == [msg |-> msg, name |-> name]

\* affine @ [v, 1]
AffineApply(a, v) == [i \in 1..3 |-> a.scale[i] * v[i] + a.trans[i]]

\* np.linalg.norm(affine[:3, :3], axis=0)
VoxelSpacing(a) == [i \in 1..3 |-> Abs(a.scale[i])]

\* np.linalg.inv raises LinAlgError on a singular matrix.
Singular(a) == \E i \in 1..3 : a.scale[i] = 0

\* ------------------------------------------------------- VolumeLabeler ----
\* np.round of the rational n / d (d > 0): to the nearest integer, a tie to
\* the even neighbour.
RoundHalfEven(n, d) ==
    LET q == n \div d
        r == n % d
    IN  IF 2 * r < d THEN q
        ELSE IF 2 * r > d THEN q + 1
        ELSE IF q % 2 = 0 THEN q ELSE q + 1

\* (points_homogeneous @ inv_affine.T)[:, :3], then np.round(...).astype(int):
\* axis i of the voxel coordinate is (p[i] - trans[i]) / scale[i].
RoundedVoxelCoords(a, p) ==
    [i \in 1..3 |->
        IF a.scale[i] > 0
        THEN RoundHalfEven(p[i] - a.trans[i], a.scale[i])
        ELSE RoundHalfEven(a.trans[i] - p[i], -a.scale[i])]

\* np.clip(x, lo, hi) == minimum(maximum(x, lo), hi)
Clip(x, lo, hi) ==
    LET m == IF x < lo THEN lo ELSE x
    IN  IF m > hi THEN hi ELSE m

\* Mutant of ClipToVolume: only the upper bound is clipped, so a negative index
\* wraps around to the far side of the axis, as numpy indexing does.
ClipUpperWrap(c) ==
    [i \in 1..3 |-> IF c[i] < 0 THEN c[i] % Shape[i] ELSE Clip(c[i], c[i], Shape[i] - 1)]

\* np.clip(voxel_coords, [0, 0, 0], dims - 1)
ClipToVolume(c) == [i \in 1..3 |-> Clip(c[i], 0, Shape[i] - 1)]

\* Mutant of LabelPoint: a point outside the volume is rejected (label 0)
\* instead of clamped.
LabelPointReject(vol, a, p) ==
    IF RoundedVoxelCoords(a, p) \in Voxels THEN vol[RoundedVoxelCoords(a, p)] ELSE 0

\* new_seg_scan[voxel_coords[:, 0], voxel_coords[:, 1], voxel_coords[:, 2]]
\* for one point.
LabelPoint(vol, a, p) == vol[ClipToVolume(RoundedVoxelCoords(a, p))]

LabelPoints(vol, a, pts) == [k \in DOMAIN pts |-> LabelPoint(vol, a, pts[k])]

\* ----------------------------------------------------- MeshReconstructor ----
\* mask = new_seg_scan == label_idx, as the set of its voxels.
Mask(vol, l) == {v \in Voxels : vol[v] = l}

\* Mutant of MaskIsEmpty: the empty-mask test never skips a label.
MaskIsEmptyNever(vol, l) == FALSE

\* not np.any(mask)
MaskIsEmpty(vol, l) == Mask(vol, l) = {}

\* np.pad(mask, pad_width=pad_amount): every voxel moves by pad_amount.
PaddedMask(mask) == {[i \in 1..3 |-> v[i] + PadAmount] : v \in mask}

\* measure.marching_cubes(smoothed, level=0.2, spacing=voxel_spacing): the
\* vertices lie at padded-grid positions scaled by the spacing; one vertex per
\* mask voxel stands for the iso-surface around it.
MarchingCubes(padded, spacing) == {[i \in 1..3 |-> v[i] * spacing[i]] : v \in padded}

\* verts -= pad_amount * voxel_spacing
SubtractPadding(verts, spacing) ==
    {[i \in 1..3 |-> v[i] - PadAmount * spacing[i]] : v \in verts}

\* verts_world = (affine @ verts_hom.T).T[:, :3]
VertsWorld(a, verts) == {AffineApply(a, v) : v \in verts}

Verts(vol, a, l) ==
    SubtractPadding(MarchingCubes(PaddedMask(Mask(vol, l)), VoxelSpacing(a)), VoxelSpacing(a))

\* o3d.geometry.TriangleMesh(Vector3dVector(verts), Vector3iVector(faces)):
\* the mesh is built from verts, not from verts_world.
BuildMesh(vol, a, l) == Verts(vol, a, l)

\* compute_mesh_metrics: zeros for a mesh without vertices; otherwise the
\* area and volume are stood for by the vertex count.
MeshMetrics(m) ==
    IF m = {}
    THEN [surface_area |-> 0, volume |-> 0, is_watertight |-> FALSE]
    ELSE [surface_area |-> Cardinality(m), volume |-> Cardinality(m), is_watertight |-> TRUE]

\* --------------------------------------------------------- QualityScorer ----
\* Distance of two points; every point and vertex of the model lies on the x
\* axis, where this is the Euclidean distance.
Dist(p, q) == Abs(p[1] - q[1]) + Abs(p[2] - q[2]) + Abs(p[3] - q[3])

MinDist(p, S) == CHOOSE d \in {Dist(p, q) : q \in S} : \A q \in S : d <= Dist(p, q)

RECURSIVE SumMinDist(_, _)
SumMinDist(ps, S) ==
    IF ps = <<>> THEN 0 ELSE MinDist(Head(ps), S) + SumMinDist(Tail(ps), S)

RECURSIVE SetToSeq(_)
SetToSeq(S) ==
    IF S = {} THEN <<>> ELSE LET x == CHOOSE x \in S : TRUE IN <<x>> \o SetToSeq(S \ {x})

SeqRange(s) == {s[k] : k \in DOMAIN s}

\* points[pc_label_mask]
SelectPoints(pts, labs, l) == SelectSeq([k \in DOMAIN pts |-> <<pts[k], labs[k]>>], LAMBDA e : e[2] = l)

\* Mutant of QualityMetrics: a distance of zero is reported when there is
\* nothing to measure.
QualityMetricsZero(sel, m) ==
    IF Len(sel) = 0 \/ m = {}
    THEN [chamfer_distance |-> [num |-> 0, den |-> 1]]
    ELSE LET ps == [k \in DOMAIN sel |-> sel[k][1]]
             s1 == SumMinDist(ps, m)
             s2 == SumMinDist(SetToSeq(m), SeqRange(ps))
         IN  [chamfer_distance |->
                 [num |-> s1 * Cardinality(m) + s2 * Len(ps), den |-> Len(ps) * Cardinality(m)]]

\* compute_reconstruction_quality_metrics: {} for no points or no vertices;
\* otherwise the sum of the two mean nearest distances, as the fraction
\* num / den.  The distance to the surface is the distance to the nearest
\* vertex.
QualityMetrics(sel, m) ==
    IF Len(sel) = 0 \/ m = {}
    THEN <<>>
    ELSE LET ps == [k \in DOMAIN sel |-> sel[k][1]]
             s1 == SumMinDist(ps, m)
             s2 == SumMinDist(SetToSeq(m), SeqRange(ps))
         IN  [chamfer_distance |->
                 [num |-> s1 * Cardinality(m) + s2 * Len(ps), den |-> Len(ps) * Cardinality(m)]]

\* ================================================== centerline graph ====
\* Bounds of the graphs given to the double sweep.
\* Most significant skeleton fragments (nodes of the spanning tree).
MaxNodes == 4
\* Largest edge weight (distance of two centroids).
MaxWeight == 2

\* No path: np.inf in the distance array.
Inf == 1000000
\* scipy's "no predecessor" value
NoPredecessor == -9999

Nodes(n) == 0..(n - 1)
AllEdges(n) == {{u, v} : u, v \in Nodes(n)} \ {{u} : u \in Nodes(n)}

RECURSIVE ReachableFrom(_, _)
ReachableFrom(R, E) ==
    LET step == R \cup {v \in UNION E : \E u \in R : {u, v} \in E}
    IN  IF step = R THEN R ELSE ReachableFrom(step, E)

\* The spanning trees over n nodes: n - 1 edges that connect them all.
SpanningTrees(n) ==
    {E \in SUBSET AllEdges(n) : Cardinality(E) = n - 1 /\ ReachableFrom({0}, E) = Nodes(n)}

\* minimum_spanning_tree(dist_matrix) for two or more centroids at pairwise
\* positive distances: a spanning tree with its edge weights.
WeightedTrees ==
    UNION {{[n |-> n, w |-> w] : w \in UNION {[E -> 1..MaxWeight] : E \in SpanningTrees(n)}} :
              n \in 2..MaxNodes}

\* One round of edge relaxation over the undirected graph g.
Relax(g, d) ==
    [v \in Nodes(g.n) |->
        LET via == {d[u] + g.w[{u, v}] : u \in {x \in Nodes(g.n) : {x, v} \in DOMAIN g.w /\ d[x] < Inf}}
            best == IF via = {} THEN Inf ELSE CHOOSE m \in via : \A x \in via : m <= x
        IN  IF best < d[v] THEN best ELSE d[v]]

RECURSIVE RelaxAll(_, _)
RelaxAll(g, d) ==
    LET e == Relax(g, d) IN IF e = d THEN d ELSE RelaxAll(g, e)

\* dijkstra(csgraph=mst, directed=False, indices=src, return_predecessors=True):
\* the shortest-path distances from src and, for each node, the node before it
\* on a shortest path from src.
DijkstraDistances(g, src) ==
    RelaxAll(g, [v \in Nodes(g.n) |-> IF v = src THEN 0 ELSE Inf])

DijkstraPredecessors(g, src) ==
    LET d == DijkstraDistances(g, src)
    IN  [v \in Nodes(g.n) |->
            IF v = src \/ d[v] = Inf THEN NoPredecessor
            ELSE CHOOSE u \in Nodes(g.n) :
                    /\ {u, v} \in DOMAIN g.w
                    /\ d[u] + g.w[{u, v}] = d[v]
                    /\ \A x \in Nodes(g.n) :
                          ({x, v} \in DOMAIN g.w /\ d[x] + g.w[{x, v}] = d[v]) => u <= x]

\* np.max(d)
ArrayMax(d) == CHOOSE m \in {d[v] : v \in DOMAIN d} : \A v \in DOMAIN d : d[v] <= m

\* np.argmax(d): the first index holding the maximum.
ArgMax(d) == CHOOSE v \in DOMAIN d : d[v] = ArrayMax(d) /\ \A u \in DOMAIN d : d[u] = ArrayMax(d) => v <= u

\* Mutant of FirstEndpoint: the root is taken as the first endpoint (a single
\* sweep).
FirstEndpointRoot(distances) == 0

\* first_endpoint_idx = np.argmax(distances)
FirstEndpoint(distances) == ArgMax(distances)

RECURSIVE SumWeights(_, _)
SumWeights(w, E) ==
    IF E = {} THEN 0 ELSE LET e == CHOOSE e \in E : TRUE IN w[e] + SumWeights(w, E \ {e})

\* Mutant of TotalMstLength: the tree summed as a symmetric matrix, every edge
\* counted twice.
TotalMstLengthSymmetric(g) == 2 * SumWeights(g.w, DOMAIN g.w)

\* total_mst_length = mst.sum()
TotalMstLength(g) == SumWeights(g.w, DOMAIN g.w)

\* Euclidean distance of two points (np.linalg.norm of the difference, cdist),
\* for points whose distance is a whole number.
SqDist(p, q) == (p[1] - q[1]) * (p[1] - q[1]) + (p[2] - q[2]) * (p[2] - q[2])
                + (p[3] - q[3]) * (p[3] - q[3])
Norm(p, q) == CHOOSE r \in 0..SqDist(p, q) : r * r = SqDist(p, q)

\* Centroids of skeleton fragments, in mm: the centre and the four corners of
\* a rhombus with half-diagonals 3 and 4, whose pairwise distances (3, 4, 5, 6,
\* 8) are whole numbers.
CentroidPoints == {<<0, 0, 0>>, <<3, 0, 0>>, <<-3, 0, 0>>, <<0, 4, 0>>, <<0, -4, 0>>}

\* centroids_mm: two or more fragments, each with its own centroid, in label
\* order.
CentroidArrays ==
    UNION {{c \in [1..n -> CentroidPoints] : \A i, j \in 1..n : c[i] = c[j] => i = j} :
              n \in 2..MaxNodes}

\* dist_matrix = distance.cdist(centroids_mm, centroids_mm), off the diagonal
DistMatrix(c) ==
    [e \in AllEdges(Len(c)) |->
        LET u == CHOOSE u \in e : \A v \in e : u <= v
            v == CHOOSE v \in e : \A x \in e : x <= v
        IN  Norm(c[u + 1], c[v + 1])]

\* minimum_spanning_tree(dist_matrix): the spanning trees of least total weight
\* (scipy returns one of them).
MinimumSpanningTrees(c) ==
    LET w == DistMatrix(c)
        T == SpanningTrees(Len(c))
        least == {E \in T : \A F \in T : SumWeights(w, E) <= SumWeights(w, F)}
    IN  {[n |-> Len(c), w |-> [e \in E |-> w[e]]] : E \in least}

\* np.nan
nan == None

\* Lines 104-119: the double sweep over the tree g of the centroids c and the
\* metrics of the path it finds; a quotient is kept as numerator and denominator.
PathMetrics(c, g) ==
    LET distances == DijkstraDistances(g, 0)
        first_endpoint_idx == FirstEndpoint(distances)
        distances_from_endpoint == DijkstraDistances(g, first_endpoint_idx)
        max_path_length == ArrayMax(distances_from_endpoint)
        second_endpoint_idx == ArgMax(distances_from_endpoint)
        straight_line_dist == Norm(c[first_endpoint_idx + 1], c[second_endpoint_idx + 1])
        total_mst_length == TotalMstLength(g)
    IN  [length |-> Some(max_path_length),
         tortuosity |-> IF straight_line_dist > 0
                        THEN Some([num |-> max_path_length, den |-> straight_line_dist])
                        ELSE nan,
         quality |-> IF total_mst_length > 0
                     THEN Some([num |-> max_path_length, den |-> total_mst_length])
                     ELSE nan]

\* ------------------------------------------- SkeletonGraphBuilder result ----
\* What compute_centerline_metrics hands to the orchestrator:
\*   "none"   None (empty cleaned mask, empty skeleton, no diameters);
\*   "single" metrics of a skeleton with fewer than two significant fragments:
\*            length, tortuosity and quality are nan and vis_data holds no path;
\*   "multi"  metrics of a skeleton with two or more significant fragments,
\*            with the path of the double sweep in vis_data.
CenterlineKinds == {"none", "single", "multi"}

\* The centroids of the fragments of a "multi" skeleton: three fragments along
\* a bend.
BentCentroids == <<(<<-3, 0, 0>>), (<<0, 4, 0>>), (<<3, 0, 0>>)>>
BentMetrics ==
    PathMetrics(BentCentroids, CHOOSE g \in MinimumSpanningTrees(BentCentroids) : TRUE)

\* metrics: length, tortuosity and quality start as np.nan (lines 80-87) and are
\* set by the path search alone (lines 115-119).
CenterlineMetrics(kind) ==
    [length |-> IF kind = "multi" THEN BentMetrics.length ELSE nan,
     tortuosity |-> IF kind = "multi" THEN BentMetrics.tortuosity ELSE nan,
     quality |-> IF kind = "multi" THEN BentMetrics.quality ELSE nan,
     max_diameter_location |-> TRUE]

CenterlineAnalysis(kind, name) ==
    IF kind = "none" THEN None
    ELSE Some([metrics |-> CenterlineMetrics(kind),
               vis_data |-> IF kind = "multi" THEN Some("lines") ELSE None,
               plot_path |-> name])

\* --------------------------------------------------------- orchestrator ----
\* results: AnalysisResult = {"vessels": {}}: there is no "point_cloud" key.
EmptyResults == [vessels |-> <<>>, point_cloud |-> None]

\* vessel_results: VesselData = {"mesh": None, ...}
FreshVesselResults ==
    [mesh |-> None, centerline |-> None, max_diameter_disc |-> None,
     metrics |-> <<>>, diameter_plot_path |-> None, diameter_plot_bytes |-> None]

Emit(msgs) == statuses' = statuses \o msgs

\* Mutant of ExceptHandler: the exception ends the loop (the try block around
\* the loop instead of inside it), the labels after it are not processed.
ExceptHandlerBreaks(emitted) ==
    /\ failures < MaxFailures
    /\ failures' = failures + 1
    /\ Emit(emitted \o <<Status("ERROR processing", names[label_idx])>>)
    /\ label_idx' = NumLabels + 1
    /\ pc' = "loop"

\* except Exception as e: status_callback(f"ERROR processing {name}: {e}"); the
\* for loop goes on with the next label.  `emitted` are the statuses of the try
\* block up to the raise.
ExceptHandler(emitted) ==
    /\ failures < MaxFailures
    /\ failures' = failures + 1
    /\ Emit(emitted \o <<Status("ERROR processing", names[label_idx])>>)
    /\ label_idx' = label_idx + 1
    /\ pc' = "loop"

PipelineInit ==
    /\ pc = "start"
    /\ statuses = <<>>
    /\ new_seg_scan = <<>>
    /\ points = None
    /\ affine = <<>>
    /\ point_labels = None
    /\ label_idx = 0
    /\ vessel_results = <<>>
    /\ mesh = {}
    /\ results = EmptyResults
    /\ failures = 0

\* status_callback("Loading data...")
Start ==
    /\ pc = "start"
    /\ Emit(<<Status("Loading data...", "")>>)
    /\ pc' = "load_seg"
    /\ UNCHANGED <<labelerVars, sweepVars, centerlineVars, discVars, scorerVars,
                   new_seg_scan, points, affine, point_labels, label_idx,
                   vessel_results, mesh, results, failures>>

LoadSegOK ==
    /\ pc = "load_seg"
    /\ \E vol \in Volumes : new_seg_scan' = vol
    /\ pc' = "load_pcd"
    /\ UNCHANGED <<labelerVars, sweepVars, centerlineVars, discVars, scorerVars,
                   statuses, points, affine, point_labels, label_idx,
                   vessel_results, mesh, results, failures>>

\* except: status_callback("ERROR: Could not load segmentation file"); return results
LoadSegFail ==
    /\ pc = "load_seg"
    /\ Emit(<<Status("ERROR: Could not load segmentation file", "")>>)
    /\ pc' = "done"
    /\ UNCHANGED <<labelerVars, sweepVars, centerlineVars, discVars, scorerVars,
                   new_seg_scan, points, affine, point_labels, label_idx,
                   vessel_results, mesh, results, failures>>

LoadPcdOK ==
    /\ pc = "load_pcd"
    /\ \E pts \in Clouds : points' = Some(pts)
    /\ pc' = "load_scan"
    /\ UNCHANGED <<labelerVars, sweepVars, centerlineVars, discVars, scorerVars,
                   statuses, new_seg_scan, affine, point_labels, label_idx,
                   vessel_results, mesh, results, failures>>

\* Mutant of LoadPcdFail: the missing point cloud ends the analysis.
LoadPcdFailReturns ==
    /\ pc = "load_pcd"
    /\ Emit(<<Status("WARNING: Could not load point cloud file", "")>>)
    /\ points' = None
    /\ pc' = "done"
    /\ UNCHANGED <<labelerVars, sweepVars, centerlineVars, discVars, scorerVars,
                   new_seg_scan, affine, point_labels, label_idx,
                   vessel_results, mesh, results, failures>>

\* except: status_callback("WARNING: ..."); points = None
LoadPcdFail ==
    /\ pc = "load_pcd"
    /\ Emit(<<Status("WARNING: Could not load point cloud file", "")>>)
    /\ points' = None
    /\ pc' = "load_scan"
    /\ UNCHANGED <<labelerVars, sweepVars, centerlineVars, discVars, scorerVars,
                   new_seg_scan, affine, point_labels, label_idx,
                   vessel_results, mesh, results, failures>>

LoadScanOK ==
    /\ pc = "load_scan"
    /\ \E a \in Affines : ~Singular(a) /\ affine' = a
    /\ pc' = "map"
    /\ UNCHANGED <<labelerVars, sweepVars, centerlineVars, discVars, scorerVars,
                   statuses, new_seg_scan, points, point_labels, label_idx,
                   vessel_results, mesh, results, failures>>

\* Mutant of LoadScanFail: the error is reported but the analysis goes on, with
\* an identity affine.
LoadScanFailGoesOn ==
    /\ pc = "load_scan"
    /\ affine' = [scale |-> <<1, 1, 1>>, trans |-> <<0, 0, 0>>]
    /\ Emit(<<Status("ERROR: Could not load NIfTI scan file", "")>>)
    /\ pc' = "map"
    /\ UNCHANGED <<labelerVars, sweepVars, centerlineVars, discVars, scorerVars,
                   new_seg_scan, points, point_labels, label_idx,
                   vessel_results, mesh, results, failures>>

\* nib.load raises (unreadable file), or np.linalg.inv raises on an affine that
\* was read: status_callback("ERROR: Could not load NIfTI scan file"); return results
LoadScanFail ==
    /\ pc = "load_scan"
    /\ \/ affine' = affine
       \/ \E a \in Affines : Singular(a) /\ affine' = a
    /\ Emit(<<Status("ERROR: Could not load NIfTI scan file", "")>>)
    /\ pc' = "done"
    /\ UNCHANGED <<labelerVars, sweepVars, centerlineVars, discVars, scorerVars,
                   new_seg_scan, points, point_labels, label_idx,
                   vessel_results, mesh, results, failures>>

\* if points is not None: ... point_labels = new_seg_scan[...]
MapPoints ==
    /\ pc = "map"
    /\ points.ok
    /\ point_labels' = Some(LabelPoints(new_seg_scan, affine, points.val))
    /\ Emit(<<Status("Mapping point cloud to segmentation labels...", ""),
              Status("...mapping complete.", "")>>)
    /\ label_idx' = 1
    /\ pc' = "loop"
    /\ UNCHANGED <<labelerVars, sweepVars, centerlineVars, discVars, scorerVars,
                   new_seg_scan, points, affine, vessel_results, mesh, results, failures>>

\* else: point_labels = None
SkipMapping ==
    /\ pc = "map"
    /\ ~points.ok
    /\ point_labels' = None
    /\ label_idx' = 1
    /\ pc' = "loop"
    /\ UNCHANGED <<labelerVars, sweepVars, centerlineVars, discVars, scorerVars,
                   statuses, new_seg_scan, points, affine, vessel_results, mesh,
                   results, failures>>

\* for label_idx ...: status_callback("Processing: ..."); if not np.any(mask): continue
SkipEmptyMask ==
    /\ pc = "loop"
    /\ label_idx <= NumLabels
    /\ MaskIsEmpty(new_seg_scan, label_idx)
    /\ Emit(<<Status("Processing", names[label_idx])>>)
    /\ label_idx' = label_idx + 1
    /\ UNCHANGED <<labelerVars, sweepVars, centerlineVars, discVars, scorerVars,
                   pc, new_seg_scan, points, affine, point_labels, vessel_results,
                   mesh, results, failures>>

\* ... otherwise vessel_results = {...}, and the try block is entered
BeginVessel ==
    /\ pc = "loop"
    /\ label_idx <= NumLabels
    /\ ~MaskIsEmpty(new_seg_scan, label_idx)
    /\ Emit(<<Status("Processing", names[label_idx])>>)
    /\ vessel_results' = FreshVesselResults
    /\ pc' = "mesh"
    /\ UNCHANGED <<labelerVars, sweepVars, centerlineVars, discVars, scorerVars,
                   new_seg_scan, points, affine, point_labels, label_idx, mesh,
                   results, failures>>

\* status_callback("Reconstructing mesh ..."), marching cubes to compute_mesh_metrics
ReconstructMesh ==
    /\ pc = "mesh"
    /\ Emit(<<Status("Reconstructing mesh", names[label_idx])>>)
    /\ mesh' = BuildMesh(new_seg_scan, affine, label_idx)
    /\ vessel_results' = [vessel_results EXCEPT
                             !.mesh = Some(mesh'),
                             !.metrics = MeshMetrics(mesh') @@ vessel_results.metrics]
    /\ pc' = "centerline"
    /\ UNCHANGED <<labelerVars, sweepVars, centerlineVars, discVars, scorerVars,
                   new_seg_scan, points, affine, point_labels, label_idx, results, failures>>

\* the mesh step raises (marching cubes finds no surface at level 0.2, ...)
ReconstructMeshRaises ==
    /\ pc = "mesh"
    /\ ExceptHandler(<<Status("Reconstructing mesh", names[label_idx])>>)
    /\ UNCHANGED <<labelerVars, sweepVars, centerlineVars, discVars, scorerVars,
                   new_seg_scan, points, affine, point_labels, vessel_results, mesh, results>>

\* vessel_results after lines 152-169, given what compute_centerline_metrics returned
WithCenterline(vr, ca) ==
    IF ~ca.ok THEN vr
    ELSE [vr EXCEPT
             !.metrics = ("centerline" :> ca.val.metrics) @@ vr.metrics,
             !.diameter_plot_path = Some(ca.val.plot_path),
             !.centerline = IF ca.val.vis_data.ok THEN Some("lineset") ELSE None,
             !.max_diameter_disc = Some("disc")]

\* status_callback("Analyzing centerline ..."), compute_centerline_metrics, the disc
AnalyzeCenterline ==
    /\ pc = "centerline"
    /\ Emit(<<Status("Analyzing centerline", names[label_idx])>>)
    /\ \E kind \in CenterlineKinds :
          vessel_results' =
              WithCenterline(vessel_results, CenterlineAnalysis(kind, names[label_idx]))
    /\ pc' = "quality"
    /\ UNCHANGED <<labelerVars, sweepVars, centerlineVars, discVars, scorerVars,
                   new_seg_scan, points, affine, point_labels, label_idx, mesh,
                   results, failures>>

\* compute_centerline_metrics or create_flat_disc raises
AnalyzeCenterlineRaises ==
    /\ pc = "centerline"
    /\ ExceptHandler(<<Status("Analyzing centerline", names[label_idx])>>)
    /\ UNCHANGED <<labelerVars, sweepVars, centerlineVars, discVars, scorerVars,
                   new_seg_scan, points, affine, point_labels, vessel_results, mesh, results>>

\* np.any(point_labels == label_idx), with points and point_labels not None
HasLabelledPoints ==
    /\ points.ok
    /\ point_labels.ok
    /\ \E k \in DOMAIN point_labels.val : point_labels.val[k] = label_idx

\* results["vessels"][name] = vessel_results
StoreVessel(vr) ==
    /\ results' = [results EXCEPT !.vessels = (names[label_idx] :> vr) @@ results.vessels]
    /\ label_idx' = label_idx + 1
    /\ pc' = "loop"

\* lines 171-178 with points of this label: quality metrics, then the record is stored
QualityAndStore ==
    /\ pc = "quality"
    /\ HasLabelledPoints
    /\ Emit(<<Status("Calculating reconstruction quality", names[label_idx])>>)
    /\ vessel_results' =
          [vessel_results EXCEPT !.metrics =
              ("quality" :> QualityMetrics(SelectPoints(points.val, point_labels.val, label_idx), mesh))
              @@ vessel_results.metrics]
    /\ StoreVessel(vessel_results')
    /\ UNCHANGED <<labelerVars, sweepVars, centerlineVars, discVars, scorerVars,
                   new_seg_scan, points, affine, point_labels, mesh, failures>>

\* compute_reconstruction_quality_metrics raises
QualityRaises ==
    /\ pc = "quality"
    /\ HasLabelledPoints
    /\ ExceptHandler(<<Status("Calculating reconstruction quality", names[label_idx])>>)
    /\ UNCHANGED <<labelerVars, sweepVars, centerlineVars, discVars, scorerVars,
                   new_seg_scan, points, affine, point_labels, vessel_results, mesh, results>>

\* lines 171-178 without points of this label: the record is stored as it is
StoreWithoutQuality ==
    /\ pc = "quality"
    /\ ~HasLabelledPoints
    /\ StoreVessel(vessel_results)
    /\ UNCHANGED <<labelerVars, sweepVars, centerlineVars, discVars, scorerVars,
                   statuses, new_seg_scan, points, affine, point_labels,
                   vessel_results, mesh, failures>>

\* Mutant of PointColors: the colours are enumerated from 0, so that label 0
\* is painted red and label 3 is left black.
PointColorsFromZero(labs) ==
    [k \in DOMAIN labs |-> IF labs[k] + 1 \in Labels THEN colors_rgb[labs[k] + 1] ELSE <<0, 0, 0>>]

\* pcd_colors[point_labels == i] = color, on np.zeros_like(points)
PointColors(labs) ==
    [k \in DOMAIN labs |-> IF labs[k] \in Labels THEN colors_rgb[labs[k]] ELSE <<0, 0, 0>>]

\* Mutant of Finish: "Analysis complete!" is emitted before the point cloud is
\* assembled and again after it.
FinishTwice ==
    /\ pc = "loop"
    /\ label_idx > NumLabels
    /\ results' = IF points.ok /\ point_labels.ok
                  THEN [results EXCEPT !.point_cloud =
                           Some([points |-> points.val, colors |-> PointColors(point_labels.val)])]
                  ELSE results
    /\ Emit(<<Status("Analysis complete!", ""), Status("Analysis complete!", "")>>)
    /\ pc' = "done"
    /\ UNCHANGED <<labelerVars, sweepVars, centerlineVars, discVars, scorerVars,
                   new_seg_scan, points, affine, point_labels, label_idx,
                   vessel_results, mesh, failures>>

\* after the loop: the labelled point cloud, "Analysis complete!", return results
Finish ==
    /\ pc = "loop"
    /\ label_idx > NumLabels
    /\ results' = IF points.ok /\ point_labels.ok
                  THEN [results EXCEPT !.point_cloud =
                           Some([points |-> points.val, colors |-> PointColors(point_labels.val)])]
                  ELSE results
    /\ Emit(<<Status("Analysis complete!", "")>>)
    /\ pc' = "done"
    /\ UNCHANGED <<labelerVars, sweepVars, centerlineVars, discVars, scorerVars,
                   new_seg_scan, points, affine, point_labels, label_idx,
                   vessel_results, mesh, failures>>

PipelineNext ==
    \/ Start
    \/ LoadSegOK
    \/ LoadSegFail
    \/ LoadPcdOK
    \/ LoadPcdFail
    \/ LoadScanOK
    \/ LoadScanFail
    \/ MapPoints
    \/ SkipMapping
    \/ SkipEmptyMask
    \/ BeginVessel
    \/ ReconstructMesh
    \/ ReconstructMeshRaises
    \/ AnalyzeCenterline
    \/ AnalyzeCenterlineRaises
    \/ QualityAndStore
    \/ QualityRaises
    \/ StoreWithoutQuality
    \/ Finish

\* The parts of the state that a specification does not exercise.
PipelineIdle ==
    /\ pc = "idle"
    /\ statuses = <<>>
    /\ new_seg_scan = <<>>
    /\ points = None
    /\ affine = <<>>
    /\ point_labels = None
    /\ label_idx = 0
    /\ vessel_results = <<>>
    /\ mesh = {}
    /\ results = EmptyResults
    /\ failures = 0
LabelerIdle == lab_in = <<>> /\ lab_out = <<>>
SweepIdle == mst = <<>> /\ sweep = <<>>
CenterlineIdle == centroids_mm = <<>> /\ graph = <<>>
DiscIdle == skeleton_mm = <<>> /\ max_diam_idx = 0 /\ tangent = <<>> /\ disc = <<>>
ScorerIdle == score_in = <<>> /\ score_out = <<>>

\* The analysis pipeline.
Init == PipelineInit /\ LabelerIdle /\ SweepIdle /\ CenterlineIdle /\ DiscIdle /\ ScorerIdle
Next == PipelineNext
Spec == Init /\ [][Next]_vars

\* ==================================================== claims: pipeline ====
HasStatus(msg, name) == \E k \in DOMAIN statuses : statuses[k] = Status(msg, name)
CountStatus(msg, name) == Cardinality({k \in DOMAIN statuses : statuses[k] = Status(msg, name)})
VolumeLoaded == DOMAIN new_seg_scan = Voxels
AffineLoaded == DOMAIN affine = {"scale", "trans"}
Aborted ==
    \/ HasStatus("ERROR: Could not load segmentation file", "")
    \/ HasStatus("ERROR: Could not load NIfTI scan file", "")
Returned == pc = "done"
LabelOf(n) == CHOOSE l \in Labels : names[l] = n
\* Label l has been through an iteration of the for loop.
Iterated(l) == (pc = "done" /\ ~Aborted) \/ (pc \notin {"done", "start"} /\ l < label_idx)
VesselFailed(l) == HasStatus("ERROR processing", names[l])

\* The records the processing of label l alone can produce: from its own mask,
\* the affine and the points carrying its label, for each result of the
\* centerline analysis.
OwnMesh(l) == SubtractPadding(MarchingCubes(PaddedMask(Mask(new_seg_scan, l)),
                                            VoxelSpacing(affine)), VoxelSpacing(affine))
OwnQuality(l) ==
    IF point_labels.ok /\ \E k \in DOMAIN point_labels.val : point_labels.val[k] = l
    THEN "quality" :> QualityMetrics(SelectPoints(points.val, point_labels.val, l), OwnMesh(l))
    ELSE <<>>
OwnRecord(l, kind) ==
    [mesh |-> Some(OwnMesh(l)),
     centerline |-> IF kind = "multi" THEN Some("lineset") ELSE None,
     max_diameter_disc |-> IF kind = "none" THEN None ELSE Some("disc"),
     metrics |-> OwnQuality(l)
                 @@ (IF kind = "none" THEN <<>>
                     ELSE "centerline" :> CenterlineAnalysis(kind, names[l]).val.metrics)
                 @@ MeshMetrics(OwnMesh(l)),
     diameter_plot_path |-> IF kind = "none" THEN None ELSE Some(names[l]),
     diameter_plot_bytes |-> None]

\* C1 (state part): an "ERROR processing <name>" status is followed by the next
\* label's "Processing" status (by "Analysis complete!" after the last label), or
\* the loop stands at the next label; and every vessel whose own processing did
\* not fail has, once its iteration is over, exactly a record that its own
\* inputs produce, whatever happened to the other labels.
C1_Inv ==
    /\ \A k \in DOMAIN statuses :
          statuses[k].msg = "ERROR processing" =>
              LET l == LabelOf(statuses[k].name)
              IN  IF k < Len(statuses)
                  THEN statuses[k + 1] = (IF l < NumLabels
                                          THEN Status("Processing", names[l + 1])
                                          ELSE Status("Analysis complete!", ""))
                  ELSE pc = "loop" /\ label_idx = l + 1
    /\ \A l \in Labels :
          (VolumeLoaded /\ AffineLoaded /\ Iterated(l)
             /\ ~MaskIsEmpty(new_seg_scan, l) /\ ~VesselFailed(l)) =>
              /\ names[l] \in DOMAIN results.vessels
              /\ \E kind \in CenterlineKinds : results.vessels[names[l]] = OwnRecord(l, kind)

\* C1 (step part): a step in which an exception is caught changes no record of
\* the result, and no step changes or removes a record already stored.
C1_Step ==
    /\ failures' # failures => results' = results
    /\ \A n \in DOMAIN results.vessels :
          n \in DOMAIN results'.vessels /\ results'.vessels[n] = results.vessels[n]

\* C1: an exception while processing label i is caught, reported as
\* "ERROR processing <name>", the loop continues with the next label, and the
\* records of the other vessels are those of a run in which label i did not fail.
C1_Thm == [](C1_Inv) /\ [][C1_Step]_vars

C1_Witness ==
    /\ Returned
    /\ \E i, j \in Labels :
          /\ i < j
          /\ VesselFailed(i)
          /\ names[j] \in DOMAIN results.vessels
    /\ HasStatus("Analysis complete!", "")

\* C2 (the claim as stated): a vessel whose processing raised after its mesh and
\* mesh metrics were put in its record (its "Analyzing centerline" status was
\* emitted) still has an entry in the returned result, holding that mesh.
C2_PartialKept ==
    \A l \in Labels :
        (Returned /\ VesselFailed(l) /\ HasStatus("Analyzing centerline", names[l])) =>
            /\ names[l] \in DOMAIN results.vessels
            /\ results.vessels[names[l]].mesh.ok

\* C3: a label whose mask is empty gets no entry and no error status (only its
\* "Processing" status is emitted, nothing is run on it), and the vessel names
\* of the result are names of labels whose mask is not empty.
C3_Thm ==
    VolumeLoaded =>
        /\ \A l \in Labels :
              MaskIsEmpty(new_seg_scan, l) =>
                  /\ names[l] \notin DOMAIN results.vessels
                  /\ \A k \in DOMAIN statuses :
                        statuses[k].name = names[l] => statuses[k].msg = "Processing"
        /\ DOMAIN results.vessels \subseteq {names[l] : l \in {m \in Labels : Mask(new_seg_scan, m) # {}}}
        /\ \A l \in Labels : Iterated(l) => HasStatus("Processing", names[l])

C3_Witness ==
    /\ Returned
    /\ HasStatus("Analysis complete!", "")
    /\ \E l \in Labels : Mask(new_seg_scan, l) = {} /\ HasStatus("Processing", names[l])
    /\ results.vessels # <<>>

ErrorLoadStatuses ==
    {k \in DOMAIN statuses :
        statuses[k].msg \in {"ERROR: Could not load segmentation file",
                             "ERROR: Could not load NIfTI scan file"}}

\* C4: when the segmentation or the scan cannot be loaded (a singular affine
\* included) the analysis has returned with exactly one ERROR status, which is
\* the last status; no "Processing" and no "Analysis complete!" status exists;
\* the result has no vessel and no point cloud, whether or not the point cloud
\* was loaded.
C4_Thm ==
    Aborted =>
        /\ Returned
        /\ Cardinality(ErrorLoadStatuses) = 1
        /\ Len(statuses) \in ErrorLoadStatuses
        /\ \A k \in DOMAIN statuses :
              statuses[k].msg \notin {"Processing", "Analysis complete!", "Reconstructing mesh",
                                      "Mapping point cloud to segmentation labels..."}
        /\ results.vessels = <<>>
        /\ ~results.point_cloud.ok

C4_Witness ==
    /\ Returned
    /\ HasStatus("ERROR: Could not load NIfTI scan file", "")
    /\ points.ok
    /\ Len(points.val) > 0
    /\ AffineLoaded
    /\ Singular(affine)

PointCloudMissing == HasStatus("WARNING: Could not load point cloud file", "")

\* The mesh step of label l raised: its error status follows its
\* "Reconstructing mesh" status directly.
MeshStepRaised(l) ==
    \E k \in DOMAIN statuses :
        /\ k < Len(statuses)
        /\ statuses[k] = Status("Reconstructing mesh", names[l])
        /\ statuses[k + 1] = Status("ERROR processing", names[l])

\* C5: when the point cloud cannot be loaded a WARNING is emitted and the run is
\* not aborted by it: points are not mapped, every label with a non-empty mask
\* enters mesh reconstruction and, its mesh step completing, centerline
\* analysis; no metrics hold a "quality" entry, no quality status is emitted,
\* and the result has no point cloud.
C5_Thm ==
    PointCloudMissing =>
        /\ ~points.ok
        /\ ~point_labels.ok
        /\ ~HasStatus("Mapping point cloud to segmentation labels...", "")
        /\ ~results.point_cloud.ok
        /\ \A n \in DOMAIN results.vessels : "quality" \notin DOMAIN results.vessels[n].metrics
        /\ \A l \in Labels : ~HasStatus("Calculating reconstruction quality", names[l])
        /\ pc \notin {"load_scan", "done"} => ~Aborted
        /\ (Returned /\ ~Aborted) =>
              /\ HasStatus("Analysis complete!", "")
              /\ \A l \in Labels :
                    ~MaskIsEmpty(new_seg_scan, l) =>
                        /\ HasStatus("Reconstructing mesh", names[l])
                        /\ HasStatus("Analyzing centerline", names[l]) \/ MeshStepRaised(l)
                        /\ ~VesselFailed(l) => names[l] \in DOMAIN results.vessels

C5_Witness ==
    /\ Returned
    /\ PointCloudMissing
    /\ ~Aborted
    /\ \E l \in Labels :
          /\ names[l] \in DOMAIN results.vessels
          /\ "centerline" \in DOMAIN results.vessels[names[l]].metrics
          /\ results.vessels[names[l]].mesh.ok

\* Position of a status in the pipeline.
StageOf(msg) ==
    CASE msg = "Processing" -> 0
      [] msg = "Reconstructing mesh" -> 1
      [] msg = "Analyzing centerline" -> 2
      [] msg = "Calculating reconstruction quality" -> 3
      [] msg = "ERROR processing" -> 4
Rank(st) ==
    CASE st.msg = "Loading data..." -> 0
      [] st.msg = "ERROR: Could not load segmentation file" -> 1
      [] st.msg = "WARNING: Could not load point cloud file" -> 2
      [] st.msg = "ERROR: Could not load NIfTI scan file" -> 3
      [] st.msg = "Mapping point cloud to segmentation labels..." -> 4
      [] st.msg = "...mapping complete." -> 5
      [] st.msg = "Analysis complete!" -> 100
      [] OTHER -> 10 * LabelOf(st.name) + StageOf(st.msg)

\* C6: the statuses come in pipeline order (each ranks below its successor, so
\* below every later one), each at most once: "Loading data..."
\* first, the mapping statuses before every vessel status, the statuses of
\* label i before those of label j > i, within a vessel Processing, mesh,
\* centerline, quality, with an error status last of its vessel; a mesh status
\* follows its Processing status and a centerline status its mesh status
\* directly; a load error is the last status; a run that returns without a
\* load error has "Analysis complete!" exactly once, as its last status.
C6_Thm ==
    /\ statuses # <<>> => statuses[1] = Status("Loading data...", "")
    /\ \A k \in 1..(Len(statuses) - 1) : Rank(statuses[k]) < Rank(statuses[k + 1])
    /\ \A k \in DOMAIN statuses :
          /\ statuses[k].msg = "Reconstructing mesh" =>
                statuses[k - 1] = Status("Processing", statuses[k].name)
          /\ statuses[k].msg = "Analyzing centerline" =>
                statuses[k - 1] = Status("Reconstructing mesh", statuses[k].name)
          /\ statuses[k].msg = "Calculating reconstruction quality" =>
                statuses[k - 1] = Status("Analyzing centerline", statuses[k].name)
          /\ statuses[k].msg = "ERROR processing" =>
                statuses[k - 1].name = statuses[k].name /\ statuses[k - 1].msg # "Processing"
          /\ statuses[k].msg \in {"ERROR: Could not load segmentation file",
                                  "ERROR: Could not load NIfTI scan file"} => k = Len(statuses)
    /\ (Returned /\ ~Aborted) =>
          /\ statuses[Len(statuses)] = Status("Analysis complete!", "")
          /\ CountStatus("Analysis complete!", "") = 1
    /\ ~Returned => ~HasStatus("Analysis complete!", "")

C6_Witness ==
    /\ Returned
    /\ \E i, j \in Labels :
          /\ i < j
          /\ VesselFailed(i)
          /\ HasStatus("Analyzing centerline", names[i])
          /\ HasStatus("Calculating reconstruction quality", names[j])
    /\ HasStatus("...mapping complete.", "")
    /\ HasStatus("Analysis complete!", "")

\* C9 (the claim as stated): the vertices stored in a vessel's record are the
\* world-space vertices, the local vertices with the affine applied.
C9_WorldVertices ==
    \A n \in DOMAIN results.vessels :
        results.vessels[n].mesh.val = VertsWorld(affine, OwnMesh(LabelOf(n)))

\* C15: a run that is not aborted returns a labelled point cloud exactly when
\* the cloud was loaded and labelled, whatever happened to the vessels; the
\* cloud is put in the result only after the last label's iteration; it holds
\* the loaded points, a point labelled 1, 2 or 3 in red, green or blue and any
\* other point in black.
C15_Thm ==
    /\ (Returned /\ ~Aborted) => (results.point_cloud.ok <=> (points.ok /\ point_labels.ok))
    /\ results.point_cloud.ok =>
          /\ Returned
          /\ label_idx > NumLabels
          /\ results.point_cloud.val.points = points.val
          /\ DOMAIN results.point_cloud.val.colors = DOMAIN points.val
          /\ \A k \in DOMAIN points.val :
                results.point_cloud.val.colors[k] =
                    IF point_labels.val[k] = 1 THEN <<1, 0, 0>>
                    ELSE IF point_labels.val[k] = 2 THEN <<0, 1, 0>>
                    ELSE IF point_labels.val[k] = 3 THEN <<0, 0, 1>>
                    ELSE <<0, 0, 0>>

\* A returned cloud with a coloured point, in a run where one vessel failed and
\* another label was skipped.
C15_Witness ==
    /\ Returned
    /\ results.point_cloud.ok
    /\ \E k \in DOMAIN point_labels.val : point_labels.val[k] \in Labels
    /\ \E l \in Labels : VesselFailed(l)
    /\ \E l \in Labels : Mask(new_seg_scan, l) = {}

\* The volume holds label l and no other label.
OnlyLabel(l) ==
    /\ VolumeLoaded
    /\ \E v \in Voxels : new_seg_scan[v] = l
    /\ \A v \in Voxels : new_seg_scan[v] \in {0, l}

\* C12 (as claimed): a run on a volume that holds only label 2, without a point
\* cloud and without a failing step, returns exactly one vessel entry, "Left
\* Iliac Artery", without a quality metric and, once the centerline analysis
\* has returned metrics for it (the vessel is there after cleaning and
\* thinning), with a centerline and a tortuosity that is defined and greater
\* than 1.
C12_BentTube ==
    (Returned /\ ~Aborted /\ OnlyLabel(2) /\ ~points.ok /\ \A l \in Labels : ~VesselFailed(l)) =>
        /\ DOMAIN results.vessels = {"Left Iliac Artery"}
        /\ LET v == results.vessels["Left Iliac Artery"]
           IN  /\ "quality" \notin DOMAIN v.metrics
               /\ "centerline" \in DOMAIN v.metrics =>
                     /\ v.centerline.ok
                     /\ v.metrics["centerline"].tortuosity.ok
                     /\ v.metrics["centerline"].tortuosity.val.num
                           > v.metrics["centerline"].tortuosity.val.den

\* ================================================ VolumeLabeler alone ====
\* World points given to the labeler: around the volume on every axis, far
\* enough on x to lie beyond it under every affine of the model.
LabelerPoints ==
    {<<x, y, z>> : x \in (-2)..(3 * Dim), y \in (-2)..2, z \in (-1)..1}
\* The affines given to the labeler: also a scale of 3, under which voxel
\* coordinates fall at thirds.
LabelerAffines ==
    {[scale |-> <<s, s, s>>, trans |-> <<t, 0, 0>>] : s \in {1, 2, 3}, t \in Shifts}

LabelerInit ==
    /\ lab_in \in {[vol |-> v, affine |-> a, point |-> p] :
                      v \in Volumes, a \in LabelerAffines, p \in LabelerPoints}
    /\ lab_out = <<>>
    /\ PipelineIdle
    /\ SweepIdle
    /\ CenterlineIdle
    /\ DiscIdle
    /\ ScorerIdle

\* Lines 92-99 on the cloud holding the one point; the labeling may be repeated
\* on the same inputs.
LabelCloud ==
    /\ Len(lab_out) < 2
    /\ lab_out' = Append(lab_out,
                         LabelPoints(lab_in.vol, lab_in.affine, <<lab_in.point>>)[1])
    /\ UNCHANGED <<lab_in, pipelineVars, sweepVars, centerlineVars, discVars, scorerVars>>

LabelerNext == LabelCloud
SpecLabel == LabelerInit /\ [][LabelerNext]_vars

\* An integer nearest to the rational n / d (d > 0).
IsNearestInteger(r, n, d) == 2 * Abs(d * r - n) <= d
\* The index of 0..hi nearest to the integer r.
IsClamped(c, r, hi) == c \in 0..hi /\ \A c2 \in 0..hi : Abs(c - r) <= Abs(c2 - r)
\* Numerator and denominator of axis i of the voxel coordinate of world point p.
CoordNum(a, p, i) == IF a.scale[i] > 0 THEN p[i] - a.trans[i] ELSE a.trans[i] - p[i]
CoordDen(a, i) == Abs(a.scale[i])
\* v is the voxel index got from p by rounding each axis to a nearest integer
\* and clamping it to the volume.
IsRoundedClamped(v, a, p) ==
    \A i \in 1..3 :
        \E r \in (-4 * (Dim + 2))..(4 * (Dim + 2)) :
            /\ IsNearestInteger(r, CoordNum(a, p, i), CoordDen(a, i))
            /\ IsClamped(v[i], r, Shape[i] - 1)
\* Some axis of the rounded voxel coordinate lies outside the volume.
OutsideVolume(a, p) ==
    \E i \in 1..3 :
        \A r \in (-4 * (Dim + 2))..(4 * (Dim + 2)) :
            IsNearestInteger(r, CoordNum(a, p, i), CoordDen(a, i)) => r \notin 0..(Shape[i] - 1)

\* C7: the label of a point is the volume value at a voxel index got by
\* rounding its voxel coordinates and clamping each axis to [0, dim - 1]; a
\* point at a voxel centre inside the volume gets the value stored at that
\* voxel; labeling the same point again gives the same label.
C7_Thm ==
    \A k \in DOMAIN lab_out :
        /\ \E v \in Voxels :
              /\ IsRoundedClamped(v, lab_in.affine, lab_in.point)
              /\ lab_out[k] = lab_in.vol[v]
        /\ \A v \in Voxels :
              lab_in.point = AffineApply(lab_in.affine, v) => lab_out[k] = lab_in.vol[v]
        /\ lab_out[k] = lab_out[1]

C7_Witness ==
    /\ Len(lab_out) = 2
    /\ \E v \in Voxels : lab_in.point = AffineApply(lab_in.affine, v) /\ lab_in.vol[v] # 0
    /\ lab_in.affine.scale[1] # 1
    /\ lab_in.affine.trans[1] # 0
    /\ \E v \in Voxels : lab_in.vol[v] # lab_out[1]

\* C8 (the claim as stated): the label is 0 whenever the rounded voxel
\* coordinates lie outside the volume on some axis, or the voxel is background.
C8_ZeroOutside ==
    \A k \in DOMAIN lab_out :
        (\/ OutsideVolume(lab_in.affine, lab_in.point)
         \/ \A v \in Voxels :
               IsRoundedClamped(v, lab_in.affine, lab_in.point) => lab_in.vol[v] = 0)
            => lab_out[k] = 0

\* C8 (amended): the label is 0 exactly when the voxel at the rounded and
\* clamped index is background; a point whose rounded coordinates lie outside
\* the volume gets the value of that border voxel, which need not be 0.
C8_Thm ==
    \A k \in DOMAIN lab_out :
        \E v \in Voxels :
            /\ IsRoundedClamped(v, lab_in.affine, lab_in.point)
            /\ lab_out[k] = 0 <=> lab_in.vol[v] = 0

C8_Witness ==
    /\ lab_out # <<>>
    /\ OutsideVolume(lab_in.affine, lab_in.point)
    /\ lab_out[1] # 0

\* ================================================ double sweep alone ====
SweepInit ==
    /\ mst \in WeightedTrees
    /\ sweep = [pc |-> "sweep1"]
    /\ PipelineIdle
    /\ LabelerIdle
    /\ CenterlineIdle
    /\ DiscIdle
    /\ ScorerIdle

\* distances, _ = dijkstra(..., indices=0); first_endpoint_idx = np.argmax(distances)
SweepFromRoot ==
    /\ sweep.pc = "sweep1"
    /\ LET distances == DijkstraDistances(mst, 0)
       IN  sweep' = [pc |-> "sweep2",
                     total_mst_length |-> TotalMstLength(mst),
                     distances |-> distances,
                     first_endpoint_idx |-> FirstEndpoint(distances)]
    /\ UNCHANGED <<mst, pipelineVars, labelerVars, centerlineVars, discVars, scorerVars>>

\* distances_from_endpoint, predecessors = dijkstra(..., indices=first_endpoint_idx);
\* max_path_length = np.max(...); second_endpoint_idx = np.argmax(...)
SweepFromEndpoint ==
    /\ sweep.pc = "sweep2"
    /\ LET d == DijkstraDistances(mst, sweep.first_endpoint_idx)
       IN  sweep' = [pc |-> "measured",
                     total_mst_length |-> sweep.total_mst_length,
                     distances |-> sweep.distances,
                     first_endpoint_idx |-> sweep.first_endpoint_idx,
                     distances_from_endpoint |-> d,
                     predecessors |-> DijkstraPredecessors(mst, sweep.first_endpoint_idx),
                     max_path_length |-> ArrayMax(d),
                     second_endpoint_idx |-> ArgMax(d)]
    /\ UNCHANGED <<mst, pipelineVars, labelerVars, centerlineVars, discVars, scorerVars>>

\* Mutant of Reversed: the path is left in walking order.
ReversedNot(path) == path

\* path[::-1]
Reversed(path) == [k \in 1..Len(path) |-> path[Len(path) + 1 - k]]

\* np.array([path[:-1], path[1:]]).T: one row per pair of consecutive nodes
Connections(path) == [k \in 1..(Len(path) - 1) |-> <<path[k], path[k + 1]>>]

\* path = []; current_node = second_endpoint_idx
StartWalk ==
    /\ sweep.pc = "measured"
    /\ sweep' = [pc |-> "walk", path |-> <<>>, current_node |-> sweep.second_endpoint_idx,
                 first_endpoint_idx |-> sweep.first_endpoint_idx,
                 second_endpoint_idx |-> sweep.second_endpoint_idx,
                 predecessors |-> sweep.predecessors]
    /\ UNCHANGED <<mst, pipelineVars, labelerVars, centerlineVars, discVars, scorerVars>>

\* One turn of the while loop: path.append(current_node);
\* current_node = predecessors[current_node].  The model stops a walk that has
\* gone one node beyond the number of nodes.
WalkStep ==
    /\ sweep.pc = "walk"
    /\ sweep.current_node # NoPredecessor
    /\ Len(sweep.path) <= mst.n
    /\ sweep' = [sweep EXCEPT !.path = Append(@, sweep.current_node),
                              !.current_node = sweep.predecessors[sweep.current_node]]
    /\ UNCHANGED <<mst, pipelineVars, labelerVars, centerlineVars, discVars, scorerVars>>

\* The loop ends: path = path[::-1] and the vis_data connections
WalkEnd ==
    /\ sweep.pc = "walk"
    /\ sweep.current_node = NoPredecessor
    /\ LET path == Reversed(sweep.path)
       IN  sweep' = [pc |-> "done", path |-> path, connections |-> Connections(path),
                     first_endpoint_idx |-> sweep.first_endpoint_idx,
                     second_endpoint_idx |-> sweep.second_endpoint_idx]
    /\ UNCHANGED <<mst, pipelineVars, labelerVars, centerlineVars, discVars, scorerVars>>

SweepNext ==
    \/ SweepFromRoot
    \/ SweepFromEndpoint
    \/ StartWalk
    \/ WalkStep
    \/ WalkEnd

SpecSweep == SweepInit /\ [][SweepNext]_vars

\* The while loop goes on as long as it can: a turn of the loop, and its exit,
\* are taken when they are possible.
SpecSweepLive == SpecSweep /\ WF_vars(WalkStep) /\ WF_vars(WalkEnd)

\* Length of the path of the tree between u and v, following the tree from u:
\* the tree minus the edge towards a neighbour x splits, and v lies on x's side.
RECURSIVE TreePathLength(_, _, _, _)
TreePathLength(w, E, u, v) ==
    IF u = v THEN 0
    ELSE LET x == CHOOSE x \in UNION E :
                     /\ {u, x} \in E
                     /\ v \in ReachableFrom({x}, E \ {{u, x}})
         IN  w[{u, x}] + TreePathLength(w, E \ {{u, x}}, x, v)

\* The largest distance in the tree over all pairs of nodes.
TreeDiameter(g) ==
    LET all == {TreePathLength(g.w, DOMAIN g.w, u, v) : u, v \in Nodes(g.n)}
    IN  CHOOSE m \in all : \A x \in all : x <= m

\* C10: on every spanning tree over two or more nodes with positive weights the
\* double sweep returns, as max_path_length, the largest tree distance over all
\* pairs of nodes, and its two endpoints are at that distance.
C10_Thm ==
    sweep.pc = "measured" =>
        /\ sweep.max_path_length = TreeDiameter(mst)
        /\ TreePathLength(mst.w, DOMAIN mst.w, sweep.first_endpoint_idx,
                          sweep.second_endpoint_idx) = TreeDiameter(mst)

C10_Witness ==
    /\ sweep.pc = "measured"
    /\ mst.n = MaxNodes
    /\ sweep.first_endpoint_idx # 0
    /\ sweep.second_endpoint_idx # 0
    /\ sweep.max_path_length > ArrayMax(sweep.distances)

\* C17 (state part): the walk never holds more nodes than the tree has, and the
\* path it leaves starts at the first endpoint, ends at the second, holds no
\* node twice, steps along edges of the spanning tree, and gives one connection
\* row per step, with both indices in the centroid array.
C17_Inv ==
    /\ sweep.pc = "walk" =>
          Len(sweep.path) + (IF sweep.current_node = NoPredecessor THEN 0 ELSE 1) <= mst.n
    /\ sweep.pc = "done" =>
          /\ Len(sweep.path) >= 1
          /\ sweep.path[1] = sweep.first_endpoint_idx
          /\ sweep.path[Len(sweep.path)] = sweep.second_endpoint_idx
          /\ \A i, j \in DOMAIN sweep.path : sweep.path[i] = sweep.path[j] => i = j
          /\ \A k \in 1..(Len(sweep.path) - 1) :
                {sweep.path[k], sweep.path[k + 1]} \in DOMAIN mst.w
          /\ Len(sweep.connections) = Len(sweep.path) - 1
          /\ \A k \in DOMAIN sweep.connections :
                /\ sweep.connections[k][1] \in Nodes(mst.n)
                /\ sweep.connections[k][2] \in Nodes(mst.n)

\* C17: with two or more significant fragments the predecessor walk terminates,
\* and the node sequence it leaves is a path of the spanning tree from the
\* first endpoint to the second, as C17_Inv states.
C17_Thm == [](C17_Inv) /\ ((sweep.pc = "walk") ~> (sweep.pc = "done"))

C17_Witness ==
    /\ sweep.pc = "done"
    /\ mst.n = MaxNodes
    /\ Len(sweep.path) = MaxNodes
    /\ Len(sweep.connections) = MaxNodes - 1
    /\ sweep.path[1] # 0

\* ============================================= centerline graph alone ====
\* Lines 96-119 of compute_centerline_metrics on the centroids of two or more
\* significant fragments.
CenterlineInit ==
    /\ centroids_mm \in CentroidArrays
    /\ graph = [pc |-> "centroids"]
    /\ PipelineIdle
    /\ LabelerIdle
    /\ SweepIdle
    /\ DiscIdle
    /\ ScorerIdle

\* dist_matrix = cdist(...); mst = minimum_spanning_tree(dist_matrix)
BuildGraph ==
    /\ graph.pc = "centroids"
    /\ \E g \in MinimumSpanningTrees(centroids_mm) : graph' = [pc |-> "graph", mst |-> g]
    /\ UNCHANGED <<centroids_mm, pipelineVars, labelerVars, sweepVars, discVars, scorerVars>>

\* total_mst_length, the two dijkstra runs, tortuosity, quality and length
MeasurePath ==
    /\ graph.pc = "graph"
    /\ graph' = [pc |-> "measured", mst |-> graph.mst,
                 metrics |-> PathMetrics(centroids_mm, graph.mst)]
    /\ UNCHANGED <<centroids_mm, pipelineVars, labelerVars, sweepVars, discVars, scorerVars>>

CenterlineNext ==
    \/ BuildGraph
    \/ MeasurePath

SpecCenterline == CenterlineInit /\ [][CenterlineNext]_vars

\* Sum of the edge weights of the tree held in graph.
GraphTreeLength == SumWeights(graph.mst.w, DOMAIN graph.mst.w)

\* C11: with exactly two significant fragments (at distinct centroids) the
\* reported length is the distance of the two centroids and the quality score is
\* 1; with any number of fragments the reported length is at most the total
\* length of the spanning tree, so the quality score is at most 1.
C11_Thm ==
    graph.pc = "measured" =>
        /\ Len(centroids_mm) = 2 =>
              /\ graph.metrics.length = Some(Norm(centroids_mm[1], centroids_mm[2]))
              /\ graph.metrics.quality.ok
              /\ graph.metrics.quality.val.num = graph.metrics.quality.val.den
        /\ graph.metrics.length.ok
        /\ graph.metrics.length.val <= GraphTreeLength
        /\ graph.metrics.quality.ok
        /\ graph.metrics.quality.val.den = GraphTreeLength
        /\ graph.metrics.quality.val.num <= graph.metrics.quality.val.den

C11_Witness ==
    /\ graph.pc = "measured"
    /\ Len(centroids_mm) = 2
    /\ graph.metrics.length = Some(5)
    /\ graph.metrics.quality = Some([num |-> 5, den |-> 5])

\* ======================================== tangent and disc at the widest point ====
\* Longest skeleton.
MaxSkeleton == 3
\* Largest resolution asked of create_flat_disc, besides the default.
MaxResolution == 3
\* create_flat_disc(center, radius, normal, resolution=60)
DefaultResolution == 60

\* skeleton_mm: the skeleton voxels in mm, each voxel once.
SkeletonPoints == {<<x, y, z>> : x \in 0..1, y \in 0..1, z \in 0..1}
SkeletonArrays ==
    UNION {{c \in [1..n -> SkeletonPoints] : \A i, j \in 1..n : c[i] = c[j] => i = j} :
              n \in 1..MaxSkeleton}
Resolutions == (1..MaxResolution) \cup {DefaultResolution}

\* pts[k] of a numpy array: an index in -len..len-1, a negative one counted from
\* the end; any other index raises IndexError.
ArrayIndex(pts, k) ==
    IF k >= Len(pts) \/ k < -Len(pts) THEN None
    ELSE Some(pts[(IF k < 0 THEN k + Len(pts) ELSE k) + 1])

Minus(p, q) == <<p[1] - q[1], p[2] - q[2], p[3] - q[3]>>

\* The two indices compute_tangent reads, minuend first.
TangentOperands(pts, i) ==
    IF i = 0 THEN <<i + 1, i>>
    ELSE IF i = Len(pts) - 1 THEN <<i, i - 1>>
    ELSE <<i + 1, i - 1>>

\* compute_tangent(pts, i): the difference, or the IndexError of an index out of
\* range.
compute_tangent(pts, i) ==
    LET a == ArrayIndex(pts, TangentOperands(pts, i)[1])
        b == ArrayIndex(pts, TangentOperands(pts, i)[2])
    IN  IF a.ok /\ b.ok THEN [raised |-> FALSE, val |-> Minus(a.val, b.val)]
        ELSE [raised |-> TRUE]

\* vertices = np.vstack([[0, 0, 0], circle_points]): the centre, then the rim
\* points at the angles 2 * pi * k / resolution, k = 0..resolution-1 (a rim point
\* is kept as the fraction k / resolution of the full turn).
DiscVertices(resolution) ==
    <<[rim |-> FALSE, num |-> 0, den |-> 1]>>
    \o [k \in 1..resolution |-> [rim |-> TRUE, num |-> k - 1, den |-> resolution]]

\* Mutant of DiscTriangles: the fan is left open, without the triangle that
\* joins the last rim point to the first.
DiscTrianglesOpen(resolution) == [i \in 1..(resolution - 1) |-> <<0, i, i + 1>>]

\* triangles = [[0, i, i + 1] for i in range(1, resolution)];
\* triangles.append([0, resolution, 1])
DiscTriangles(resolution) ==
    [i \in 1..(resolution - 1) |-> <<0, i, i + 1>>] \o << <<0, resolution, 1>> >>

\* Step 2 of create_flat_disc: the axis the disc is turned about so that its
\* normal points along the one asked for (none when that is the z axis, or the
\* zero vector, for which the z axis is taken).
DiscRotation(normal) ==
    IF normal[1] = 0 /\ normal[2] = 0 /\ normal[3] >= 0 THEN [turned |-> FALSE]
    ELSE IF normal[1] = 0 /\ normal[2] = 0 THEN [turned |-> TRUE, axis |-> <<1, 0, 0>>]
    ELSE [turned |-> TRUE, axis |-> <<-normal[2], normal[1], 0>>]

create_flat_disc(center, normal, resolution) ==
    [vertices |-> DiscVertices(resolution),
     triangles |-> DiscTriangles(resolution),
     rotation |-> DiscRotation(normal),
     center |-> center,
     resolution |-> resolution]

DiscInit ==
    /\ skeleton_mm \in SkeletonArrays
    /\ max_diam_idx \in 0..(Len(skeleton_mm) - 1)
    /\ tangent = <<>>
    /\ disc = <<>>
    /\ PipelineIdle
    /\ LabelerIdle
    /\ SweepIdle
    /\ CenterlineIdle
    /\ ScorerIdle

\* tangent = compute_tangent(skeleton_mm, max_diam_idx)
TangentAtWidest ==
    /\ tangent = <<>>
    /\ tangent' = compute_tangent(skeleton_mm, max_diam_idx)
    /\ UNCHANGED <<skeleton_mm, max_diam_idx, disc, pipelineVars, labelerVars, sweepVars,
                   centerlineVars, scorerVars>>

\* create_flat_disc(center=max_diameter_location, radius=..., normal=tangent),
\* at the default resolution or at one given
DiscAtWidest ==
    /\ tangent # <<>>
    /\ ~tangent.raised
    /\ disc = <<>>
    /\ \E resolution \in Resolutions :
          disc' = create_flat_disc(skeleton_mm[max_diam_idx + 1], tangent.val, resolution)
    /\ UNCHANGED <<skeleton_mm, max_diam_idx, tangent, pipelineVars, labelerVars, sweepVars,
                   centerlineVars, scorerVars>>

DiscNext ==
    \/ TangentAtWidest
    \/ DiscAtWidest

SpecDisc == DiscInit /\ [][DiscNext]_vars

\* C14: every disc built has resolution + 1 vertices (the centre at index 0, the
\* rim at 1..resolution) and resolution triangles, every triangle index is a
\* vertex index, and the triangles are the fan (0, i, i+1), i = 1..resolution-1,
\* closed by (0, resolution, 1).
C14_Thm ==
    disc # <<>> =>
        LET n == disc.resolution
        IN  /\ n >= 1
            /\ Len(disc.vertices) = n + 1
            /\ ~disc.vertices[1].rim
            /\ \A k \in 2..(n + 1) : disc.vertices[k].rim
            /\ Len(disc.triangles) = n
            /\ \A t \in DOMAIN disc.triangles :
                  \A c \in 1..3 : disc.triangles[t][c] \in 0..(Len(disc.vertices) - 1)
            /\ \A i \in 1..(n - 1) : disc.triangles[i] = <<0, i, i + 1>>
            /\ disc.triangles[n] = <<0, n, 1>>

C14_Witness ==
    /\ disc # <<>>
    /\ disc.resolution = DefaultResolution
    /\ Len(disc.triangles) = DefaultResolution
    /\ disc.rotation.turned

\* C16 (as claimed): compute_tangent never raises on a skeleton of one or more
\* points; it returns the forward difference at index 0, the backward
\* difference at the last index and the central difference in between.
C16_TangentNeverRaises ==
    tangent # <<>> =>
        /\ ~tangent.raised
        /\ LET i == max_diam_idx + 1
           IN  tangent.val =
                  IF max_diam_idx = 0 THEN Minus(skeleton_mm[i + 1], skeleton_mm[i])
                  ELSE IF i = Len(skeleton_mm) THEN Minus(skeleton_mm[i], skeleton_mm[i - 1])
                  ELSE Minus(skeleton_mm[i + 1], skeleton_mm[i - 1])

\* ================================================ quality scorer alone ====
\* compute_reconstruction_quality_metrics called on its own, on any cloud and
\* any set of mesh vertices of the model, the empty ones included.
ScorerInit ==
    /\ score_in \in [points : Clouds, mesh : SUBSET CloudPoints]
    /\ score_out = <<>>
    /\ LabelerIdle
    /\ SweepIdle
    /\ CenterlineIdle
    /\ DiscIdle

\* The points as the orchestrator hands them over, each with the label it was
\* selected by.
Selected(pts, l) == [k \in DOMAIN pts |-> <<pts[k], l>>]

\* quality_metrics = compute_reconstruction_quality_metrics(points, mesh)
ScoreQuality ==
    /\ score_in # <<>>
    /\ score_out = <<>>
    /\ score_out' = Some(QualityMetrics(Selected(score_in.points, 1), score_in.mesh))
    /\ UNCHANGED <<score_in, pipelineVars, labelerVars, sweepVars, centerlineVars, discVars>>

\* The scorer on its own, or the pipeline that calls it.
ScorerAndPipelineInit ==
    \/ ScorerInit /\ PipelineIdle
    \/ Init

ScorerNext ==
    \/ ScoreQuality
    \/ PipelineNext

SpecScorer == ScorerAndPipelineInit /\ [][ScorerNext]_vars

\* Some point of the cloud carries label l.
LabelCarried(l) ==
    /\ points.ok
    /\ point_labels.ok
    /\ \E k \in DOMAIN point_labels.val : point_labels.val[k] = l

\* C13: the scorer returns no chamfer_distance (and so no zero) when it is given
\* no points or a mesh without vertices, and a vessel whose label no point of
\* the cloud carries has no quality entry in its metrics.
C13_Thm ==
    /\ (score_out # <<>> /\ (Len(score_in.points) = 0 \/ score_in.mesh = {})) =>
          "chamfer_distance" \notin DOMAIN score_out.val
    /\ \A n \in DOMAIN results.vessels :
          ~LabelCarried(LabelOf(n)) => "quality" \notin DOMAIN results.vessels[n].metrics

C13_Witness ==
    /\ score_out = Some(<<>>)
    /\ score_in.points = <<>>
    /\ score_in.mesh # {}

====
